---- MODULE Spec2Model ----
(***************************************************************************)
(* Poltava Air Monitor: the refresh pipeline of the integration.           *)
(*                                                                         *)
(*   const.py        the sensor types and SENSOR_NAME_MAPPING              *)
(*   api.py          PoltavaAirMonitorApiClient (_api_request, get_posts,  *)
(*                   get_post_detail, find_nearest_post)                   *)
(*   coordinator.py  PoltavaAirMonitorCoordinator (_async_update_data)     *)
(*   __init__.py     async_setup_entry, async_unload_entry                 *)
(*   sensor.py       clean_html, get_sensor_type_from_name and the         *)
(*                   entities, which read coordinator.data                 *)
(*   config_flow.py  validate_input and the steps of the config flow       *)
(*                                                                         *)
(*   Spec      the stations: setup, the cycles of the interval, unload     *)
(*   FairSpec  the stations that stay loaded, with the request deadline    *)
(*   CallSpec  the functions of the code called on their own inputs        *)
(*   FlowSpec  the config flow from its user step to its entry             *)
(*   PairSpec  two stations at once, one of a post, one of coordinates     *)
(*                                                                         *)
(* Python values are tagged records: a dict is a record whose DOMAIN is    *)
(* its key set, so a missing key is a missing field.                       *)
(***************************************************************************)
EXTENDS Integers, Sequences, FiniteSets, TLC

\* ------------------------------------------------------------------ bounds
MaxPosts == 2       \* longest post list the upstream returns
MaxCoord == 1       \* configured latitude ranges over 0..MaxCoord
MaxVersion == 2     \* distinct contents the upstream serves for one post
MaxLen == 3         \* longest text made of an alphabet of pieces
MaxParams == 2      \* most parameters of a detail a sensor reads
MaxReading == 1     \* readings of a parameter range over 0..MaxReading

Entries == {"e1", "e2"}

\* ------------------------------------------------------------ Python values
None == [t |-> "None"]

\* Keys of the config entry data (const.py).
CONF_POST_ID == "post_id"
CONF_LATITUDE == "latitude"
CONF_LONGITUDE == "longitude"

\* --------------------------------------------------------------- const.py
\* Sensor types.
SENSOR_TYPE_AQI == "aqi"
SENSOR_TYPE_PM25 == "pm25"
SENSOR_TYPE_PM10 == "pm10"
SENSOR_TYPE_PM1 == "pm1"
SENSOR_TYPE_OZONE == "ozone"
SENSOR_TYPE_NO2 == "no2"
SENSOR_TYPE_SO2 == "so2"
SENSOR_TYPE_CO == "co"
SENSOR_TYPE_TEMPERATURE == "temperature"
SENSOR_TYPE_HUMIDITY == "humidity"
SENSOR_TYPE_PRESSURE == "pressure"
SENSOR_TYPE_WIND_SPEED == "wind_speed"
SENSOR_TYPE_WIND_DIRECTION == "wind_direction"

\* A Python str is a sequence of pieces of text.  Latin letters, digits,
\* punctuation and blanks are pieces of one character; a Cyrillic word, a
\* unit and the name of an HTML entity with its semicolon are one piece each,
\* written in Latin letters here:
\*   "TCh" ТЧ   "Ozon" Озон   "Di" Ді   "oksyd" оксид   "Oksyd" Оксид
\*   "azotu" азоту   "sirky" сірки   "vuhletsiu" вуглецю   "--" – (en dash)
\*   "Temperatura" Температура   "povitria" повітря   "Volohist" Вологість
\*   "Tysk" Тиск   "Shvydkist" Швидкість   "vitru" вітру   "Napriam" Напрям
\*   "mkg/m" мкг/м   "kPa" кПа   "m/s" м/с   "deg" °   "Es" С   "%" %
\*   "U+00A0" the no-break space
\* No key of the mapping starts or ends inside a piece of a label, so "in"
\* on the characters is containment of the sequences of pieces.
NBSP == "U+00A0"

\* A str value, apart from None.
Str(s) == [t |-> "str", v |-> s]
\* A number of a decoded body, apart from None.
Number(n) == [t |-> "number", v |-> n]

Entry(key, type) == [key |-> key, type |-> type]

\* The table with the key of PM1 before the key of PM10.
SENSOR_NAME_MAPPING_ShortKeyFirst ==
    << Entry(<<"TCh", "2", ",", "5">>, SENSOR_TYPE_PM25),
       Entry(<<"TCh", "1">>, SENSOR_TYPE_PM1),
       Entry(<<"TCh", "1", "0">>, SENSOR_TYPE_PM10),
       Entry(<<"Ozon", " ", "--", " ", "O">>, SENSOR_TYPE_OZONE),
       Entry(<<"Di", "oksyd", " ", "azotu", " ", "--", " ", "N", "O">>, SENSOR_TYPE_NO2),
       Entry(<<"Di", "oksyd", " ", "sirky", " ", "--", " ", "S", "O">>, SENSOR_TYPE_SO2),
       Entry(<<"Oksyd", " ", "vuhletsiu", " ", "--", " ", "C", "O">>, SENSOR_TYPE_CO),
       Entry(<<"Temperatura", " ", "povitria">>, SENSOR_TYPE_TEMPERATURE),
       Entry(<<"Volohist">>, SENSOR_TYPE_HUMIDITY),
       Entry(<<"Tysk">>, SENSOR_TYPE_PRESSURE),
       Entry(<<"Shvydkist", " ", "vitru">>, SENSOR_TYPE_WIND_SPEED),
       Entry(<<"Napriam", " ", "vitru">>, SENSOR_TYPE_WIND_DIRECTION) >>

\* SENSOR_NAME_MAPPING, in the order of the dict.
SENSOR_NAME_MAPPING ==
    << Entry(<<"TCh", "2", ",", "5">>, SENSOR_TYPE_PM25),
       Entry(<<"TCh", "1", "0">>, SENSOR_TYPE_PM10),
       Entry(<<"TCh", "1">>, SENSOR_TYPE_PM1),
       Entry(<<"Ozon", " ", "--", " ", "O">>, SENSOR_TYPE_OZONE),
       Entry(<<"Di", "oksyd", " ", "azotu", " ", "--", " ", "N", "O">>, SENSOR_TYPE_NO2),
       Entry(<<"Di", "oksyd", " ", "sirky", " ", "--", " ", "S", "O">>, SENSOR_TYPE_SO2),
       Entry(<<"Oksyd", " ", "vuhletsiu", " ", "--", " ", "C", "O">>, SENSOR_TYPE_CO),
       Entry(<<"Temperatura", " ", "povitria">>, SENSOR_TYPE_TEMPERATURE),
       Entry(<<"Volohist">>, SENSOR_TYPE_HUMIDITY),
       Entry(<<"Tysk">>, SENSOR_TYPE_PRESSURE),
       Entry(<<"Shvydkist", " ", "vitru">>, SENSOR_TYPE_WIND_SPEED),
       Entry(<<"Napriam", " ", "vitru">>, SENSOR_TYPE_WIND_DIRECTION) >>

\* -------------------------------------------------------------- sensor.py
\* re.sub(r"<[^>]+>", "", text): from the left, a "<", one piece or more
\* that is no ">", and the first ">" after them are removed.
RECURSIVE StripTags(_)
StripTags(text) ==
    IF Len(text) = 0 THEN << >>
    ELSE IF /\ Head(text) = "<"
            /\ Len(text) >= 3
            /\ text[2] # ">"
            /\ \E j \in 3..Len(text) : text[j] = ">"
         THEN LET j == CHOOSE j \in 3..Len(text) :
                          text[j] = ">" /\ \A i \in 3..(j - 1) : text[i] # ">"
              IN StripTags(SubSeq(text, j + 1, Len(text)))
         ELSE <<Head(text)>> \o StripTags(Tail(text))

\* The character a named entity stands for.
EntityNames == {"lt;", "gt;", "amp;", "nbsp;"}
EntityChar(name) ==
    CASE name = "lt;" -> "<" [] name = "gt;" -> ">" [] name = "amp;" -> "&" [] OTHER -> NBSP

\* html.unescape(text): one pass from the left; each "&" with the name of
\* an entity after it becomes the character, and the pass goes on behind it.
RECURSIVE unescape(_)
unescape(text) ==
    IF Len(text) = 0 THEN << >>
    ELSE IF Head(text) = "&" /\ Len(text) >= 2 /\ text[2] \in EntityNames
         THEN <<EntityChar(text[2])>> \o unescape(SubSeq(text, 3, Len(text)))
         ELSE <<Head(text)>> \o unescape(Tail(text))

\* \s of a str pattern: the blank and the no-break space among others.
IsSpace(c) == c \in {" ", NBSP}

\* re.sub(r"\s+", " ", text): every run of whitespace becomes one blank.
RECURSIVE CollapseSpaces(_)
CollapseSpaces(text) ==
    IF Len(text) = 0 THEN << >>
    ELSE IF IsSpace(Head(text))
         THEN IF Len(text) >= 2 /\ IsSpace(text[2])
              THEN CollapseSpaces(Tail(text))
              ELSE <<" ">> \o CollapseSpaces(Tail(text))
         ELSE <<Head(text)>> \o CollapseSpaces(Tail(text))

\* str.strip(): whitespace at both ends removed.
RECURSIVE strip(_)
strip(text) ==
    IF Len(text) = 0 THEN << >>
    ELSE IF IsSpace(Head(text)) THEN strip(Tail(text))
    ELSE IF IsSpace(text[Len(text)]) THEN strip(SubSeq(text, 1, Len(text) - 1))
    ELSE text

\* clean_html: tags removed, entities decoded, whitespace normalised.
clean_html(text) == strip(CollapseSpaces(unescape(StripTags(text))))

\* key in clean_name
Contains(key, text) ==
    \E i \in 0..(Len(text) - Len(key)) : SubSeq(text, i + 1, i + Len(key)) = key

\* The loop over SENSOR_NAME_MAPPING.items() from its k-th entry on.
RECURSIVE FirstMatch(_, _)
FirstMatch(clean_name, k) ==
    IF k > Len(SENSOR_NAME_MAPPING) THEN None
    ELSE IF Contains(SENSOR_NAME_MAPPING[k].key, clean_name)
         THEN Str(SENSOR_NAME_MAPPING[k].type)
         ELSE FirstMatch(clean_name, k + 1)

\* A loop that goes on after a match and returns the last one.
get_sensor_type_from_name_LastMatch(name) ==
    LET clean_name == clean_html(name)
        hits == {k \in 1..Len(SENSOR_NAME_MAPPING) :
                    Contains(SENSOR_NAME_MAPPING[k].key, clean_name)}
    IN IF hits = {} THEN None
       ELSE Str(SENSOR_NAME_MAPPING[CHOOSE k \in hits : \A h \in hits : h <= k].type)
\* get_sensor_type_from_name: the first key found in the cleaned name.
get_sensor_type_from_name(name) == FirstMatch(clean_html(name), 1)

\* The labels of default_sensors, as the upstream writes them.
Unit == <<",", "&", "nbsp;", "mkg/m", "<", "s", "u", "p", ">", "3", "<", "/", "s", "u", "p", ">">>
Sub(n) == <<"<", "s", "u", "b", ">", n, "<", "/", "s", "u", "b", ">">>
default_sensors ==
    << <<SENSOR_TYPE_PM25, <<"TCh", "2", ",", "5">> \o Unit>>,
       <<SENSOR_TYPE_PM10, <<"TCh", "1", "0">> \o Unit>>,
       <<SENSOR_TYPE_PM1, <<"TCh", "1">> \o Unit>>,
       <<SENSOR_TYPE_OZONE, <<"Ozon", " ", "--", " ", "O">> \o Sub("3") \o Unit>>,
       <<SENSOR_TYPE_NO2,
         <<"Di", "oksyd", " ", "azotu", " ", "--", " ", "N", "O">> \o Sub("2") \o Unit>>,
       <<SENSOR_TYPE_SO2,
         <<"Di", "oksyd", " ", "sirky", " ", "--", " ", "S", "O">> \o Sub("2") \o Unit>>,
       <<SENSOR_TYPE_CO, <<"Oksyd", " ", "vuhletsiu", " ", "--", " ", "C", "O">> \o Unit>>,
       <<SENSOR_TYPE_TEMPERATURE, <<"Temperatura", " ", "povitria", ",", " ", "deg", "Es">> >>,
       <<SENSOR_TYPE_HUMIDITY, <<"Volohist", ",", " ", "%">> >>,
       <<SENSOR_TYPE_PRESSURE, <<"Tysk", ",", " ", "kPa">> >>,
       <<SENSOR_TYPE_WIND_SPEED, <<"Shvydkist", " ", "vitru", ",", " ", "m/s">> >>,
       <<SENSOR_TYPE_WIND_DIRECTION, <<"Napriam", " ", "vitru", ",", " ", "deg">> >> >>

\* dict.get(key)
Get(d, key) == IF key \in DOMAIN d THEN d[key] ELSE None

\* A dict without items, and "not self.coordinator.data".
EmptyDict == << >>
NoSnapshot(data) == data = None \/ DOMAIN data = {}

\* A loop that goes on after a match and returns the last one.
FirstParam_Last(params, sensor_type, k) ==
    LET places == {h \in k..Len(params) :
                      get_sensor_type_from_name(params[h].name) = Str(sensor_type)}
    IN IF places = {} THEN None
       ELSE params[CHOOSE h \in places : \A g \in places : g <= h]
\* The loop over coordinator.data["params"] from its k-th parameter on.
RECURSIVE FirstParam(_, _, _)
FirstParam(params, sensor_type, k) ==
    IF k > Len(params) THEN None
    ELSE IF get_sensor_type_from_name(params[k].name) = Str(sensor_type)
         THEN params[k]
         ELSE FirstParam(params, sensor_type, k + 1)

\* PoltavaAirMonitorParameterSensor._get_param_data (the params of a
\* published snapshot are an array: the cycle takes their len()).
_get_param_data(data, sensor_type) ==
    IF NoSnapshot(data) \/ "params" \notin DOMAIN data THEN None
    ELSE FirstParam(data.params.v, sensor_type, 1)

\* The sensor types whose zero may mean "no reading".
ZeroSuppressed == {SENSOR_TYPE_WIND_SPEED, SENSOR_TYPE_WIND_DIRECTION, SENSOR_TYPE_OZONE}

\* A zero of every channel suppressed, whatever the other readings are.
native_value_EveryZeroSuppressed(data, sensor_type) ==
    LET param_data == _get_param_data(data, sensor_type) IN
    IF param_data = None THEN None
    ELSE LET current_value == Get(param_data, "currentValue") IN
         IF current_value = Number(0) THEN None ELSE current_value
\* PoltavaAirMonitorParameterSensor.native_value
native_value(data, sensor_type) ==
    LET param_data == _get_param_data(data, sensor_type) IN
    IF param_data = None THEN None
    ELSE LET current_value == Get(param_data, "currentValue") IN
         IF /\ current_value = Number(0)
            /\ sensor_type \in ZeroSuppressed
            /\ Get(param_data, "avgDailyValue") = Number(0)
            /\ Get(param_data, "qualityIndex") = Number(0)
         THEN None
         ELSE current_value

\* The quality index added whenever it is not zero.
extra_state_attributes_NonZeroIndex(data, sensor_type) ==
    LET param_data == _get_param_data(data, sensor_type) IN
    IF param_data = None THEN EmptyDict
    ELSE LET quality_index == Get(param_data, "qualityIndex") IN
         IF quality_index.t = "number" /\ quality_index.v # 0
         THEN [daily_average |-> Get(param_data, "avgDailyValue"),
               quality_index |-> quality_index]
         ELSE [daily_average |-> Get(param_data, "avgDailyValue")]
\* PoltavaAirMonitorParameterSensor.extra_state_attributes
extra_state_attributes(data, sensor_type) ==
    LET param_data == _get_param_data(data, sensor_type) IN
    IF param_data = None THEN EmptyDict
    ELSE LET quality_index == Get(param_data, "qualityIndex") IN
         IF quality_index.t = "number" /\ quality_index.v # 0 /\ quality_index.v > 0
         THEN [daily_average |-> Get(param_data, "avgDailyValue"),
               quality_index |-> quality_index]
         ELSE [daily_average |-> Get(param_data, "avgDailyValue")]

\* PoltavaAirMonitorAQISensor.native_value
aqi_native_value(data) == IF NoSnapshot(data) THEN None ELSE Get(data, "value")

\* PoltavaAirMonitorAQISensor.extra_state_attributes
aqi_extra_state_attributes(data) ==
    IF NoSnapshot(data) THEN EmptyDict
    ELSE [index |-> Get(data, "index"),
          description |-> Get(data, "qualityDesc"),
          recommendation |-> Get(data, "qualityRecommendation"),
          updated |-> Get(data, "updated"),
          station_name |-> Get(data, "name"),
          station_address |-> Get(data, "address"),
          station_type |-> Get(data, "description")]

\* The sensor types of the parameter sensors made from the params of the
\* data, from the k-th parameter on: one for each parameter of a known type.
RECURSIVE ParameterSensors(_, _)
ParameterSensors(params, k) ==
    IF k > Len(params) THEN << >>
    ELSE LET sensor_type == get_sensor_type_from_name(params[k].name) IN
         IF sensor_type = None THEN ParameterSensors(params, k + 1)
         ELSE <<sensor_type.v>> \o ParameterSensors(params, k + 1)

\* async_setup_entry of the sensor platform: the entities it adds, each by
\* its sensor type: the AQI sensor, then the parameter sensors of the data
\* or, without data, those of default_sensors.
Entities(data) ==
    <<SENSOR_TYPE_AQI>>
    \o IF ~NoSnapshot(data) /\ "params" \in DOMAIN data
       THEN ParameterSensors(data.params.v, 1)
       ELSE [k \in 1..Len(default_sensors) |-> default_sensors[k][1]]

\* _attr_unique_id of an entity: f"{entry.entry_id}_aqi" for the AQI sensor,
\* f"{entry.entry_id}_{sensor_type}" for a parameter sensor.
_attr_unique_id(entry_id, sensor_type) == <<entry_id, "_", sensor_type>>

\* The unique ids of the entities the sensor platform adds, in their order.
UniqueIds(entry_id, data) ==
    [k \in 1..Len(Entities(data)) |-> _attr_unique_id(entry_id, Entities(data)[k])]

\* ------------------------------------------------------------ the upstream
\* A post summary of /posts/posts.json.  Stations stand at fixed places.
PostIds == {1, 2, 3}
PostLat(i) == CASE i = 1 -> 0 [] i = 2 -> 2 [] OTHER -> 1
PostLng(i) == CASE i = 1 -> 0 [] i = 2 -> 0 [] OTHER -> 1
PostSummary(i) == [id |-> i, lat |-> PostLat(i), lng |-> PostLng(i)]
\* A record of the list that lacks its coordinates.
BrokenPost == [id |-> 4]
PostRecords == {PostSummary(i) : i \in PostIds} \cup {BrokenPost}

SeqsUpTo(S, n) == UNION {[1..k -> S] : k \in 0..n}

\* Decoded JSON bodies: an array, an object that is no array, null.
JsonArray(s) == [t |-> "array", v |-> s]
JsonObject == [t |-> "object"]
JsonEmptyObject == [t |-> "empty object"]
JsonNull == [t |-> "null"]
JsonNumber == [t |-> "number"]

\* A parameter of a post detail, the PM2.5 of the upstream; every reading
\* carries the version of the response it came from.
Param(v) ==
    [name |-> default_sensors[1][2], currentValue |-> Number(v),
     avgDailyValue |-> Number(v), qualityIndex |-> Number(v)]
\* The post detail the upstream serves for post i in its v-th content
\* (the first content has no params).
PostDetail(i, v) ==
    [id |-> i, name |-> i, address |-> i, description |-> i,
     value |-> v, index |-> v, qualityDesc |-> v, qualityRecommendation |-> v,
     updated |-> v,
     params |-> JsonArray([k \in 1..(v - 1) |-> Param(v)])]
\* A detail object whose "params" is JSON null.
NullParamsDetail(i) ==
    [id |-> i, name |-> i, value |-> 0, index |-> 0, updated |-> 0, params |-> JsonNull]
PostDetails == {PostDetail(i, v) : i \in PostIds, v \in 1..MaxVersion}

\* What the list endpoint may answer.
ListBodies == {JsonArray(s) : s \in SeqsUpTo(PostRecords, MaxPosts)} \cup {JsonObject, JsonNull}
\* What the detail endpoint of post i may answer.
DetailBodies(i) ==
    {JsonArray(<<PostDetail(i, v)>>) : v \in 1..MaxVersion}
    \cup {JsonArray(<<PostDetail(i, MaxVersion), PostDetail(i, 1)>>),
          JsonArray(<<NullParamsDetail(i)>>), JsonArray(<<JsonNumber>>),
          JsonArray(<< >>), JsonObject, JsonNull}

\* Exceptions raised inside the body of _api_request.
\*   ClientConnectorError  session.get: no connection (transport failure)
\*   ClientResponseError   response.raise_for_status(): HTTP error status
\*   ContentTypeError      response.json(): body not served as JSON
\*   JSONDecodeError       response.json(): malformed JSON (a ValueError)
\*   TimeoutError          async_timeout.timeout(DEFAULT_TIMEOUT) expired
\*                         (asyncio.TimeoutError, which is the builtin
\*                         TimeoutError from Python 3.11 on)
RequestExceptions ==
    {"ClientConnectorError", "ClientResponseError", "ContentTypeError",
     "JSONDecodeError", "TimeoutError"}
\* isinstance(err, aiohttp.ClientError)
IsClientError(exc) ==
    exc \in {"ClientConnectorError", "ClientResponseError", "ContentTypeError"}

\* A JSON object decoded to a dict (the tagged values are no dicts).
IsDict(x) == "t" \notin DOMAIN x

\* An exception of class cls raised "from" cause (its __cause__).
RaiseFrom(cls, m, cause) == [t |-> "raise", exc |-> cls, msg |-> m, cause |-> cause]
Raise(cls, m) == RaiseFrom(cls, m, "none")
Return(x) == [t |-> "return", v |-> x]

\* How one request ends: a decoded body or an exception inside the request.
Answer(body) == [t |-> "json", body |-> body]
Fault(exc) == [t |-> "exc", exc |-> exc]
\* Every way a request may end, given the bodies its endpoint may answer.
Outcomes(bodies) == {Answer(b) : b \in bodies} \cup {Fault(x) : x \in RequestExceptions}

\* ----------------------------------------------------------------- api.py
\* PoltavaAirMonitorApiConnectionError is a subclass of PoltavaAirMonitorApiError.
ApiErrorClasses == {"PoltavaAirMonitorApiError", "PoltavaAirMonitorApiConnectionError"}
IsApiConnectionError(cls) == cls = "PoltavaAirMonitorApiConnectionError"
IsApiError(cls) == cls \in ApiErrorClasses

\* _api_request: the except clauses in their order.
_api_request(outcome) ==
    IF outcome.t = "json" THEN Return(outcome.body)
    ELSE IF IsClientError(outcome.exc)
         THEN RaiseFrom("PoltavaAirMonitorApiConnectionError", "Error connecting to API", outcome.exc)
         ELSE IF outcome.exc = "TimeoutError"
              THEN RaiseFrom("PoltavaAirMonitorApiConnectionError", "Timeout connecting to API", outcome.exc)
              ELSE RaiseFrom("PoltavaAirMonitorApiError", "Unexpected error from API", outcome.exc)

\* Python truthiness of a decoded body ("not data").
Falsy(j) == j.t \in {"null", "empty object"} \/ (j.t = "array" /\ Len(j.v) = 0)

get_posts(outcome) == _api_request(outcome)

\* The shape check raising the connection error.
get_post_detail_ConnectionError(outcome) ==
    LET r == _api_request(outcome) IN
    IF r.t = "raise" THEN r
    ELSE IF Falsy(r.v) \/ r.v.t # "array" \/ Len(r.v.v) = 0
         THEN Raise("PoltavaAirMonitorApiConnectionError", "No data returned for post")
         ELSE Return(r.v.v[1])
\* get_post_detail: the shape check, then data[0].
get_post_detail(outcome) ==
    LET r == _api_request(outcome) IN
    IF r.t = "raise" THEN r
    ELSE IF Falsy(r.v) \/ r.v.t # "array" \/ Len(r.v.v) = 0
         THEN Raise("PoltavaAirMonitorApiError", "No data returned for post")
         ELSE Return(r.v.v[1])

\* distance: the key of min().  The code takes the square root of this sum;
\* the root is strictly increasing and exact on these small integers, so the
\* order of the keys, the only thing min() uses, is the order of the sums.
distance(lat1, lon1, lat2, lon2) ==
    (lat1 - lat2) * (lat1 - lat2) + (lon1 - lon2) * (lon1 - lon2)

\* A min() that keeps the last element whose key is smallest.
MinFromLast(posts, latitude, longitude, i, best) ==
    CHOOSE k \in 1..Len(posts) :
        \A j \in 1..Len(posts) :
            LET kk == distance(latitude, longitude, posts[k].lat, posts[k].lng)
                kj == distance(latitude, longitude, posts[j].lat, posts[j].lng)
            IN kk <= kj /\ (j > k => kk < kj)
\* min(posts, key=...): the first element whose key is smallest.
RECURSIVE MinFrom(_, _, _, _, _)
MinFrom(posts, latitude, longitude, i, best) ==
    IF i > Len(posts) THEN best
    ELSE LET ki == distance(latitude, longitude, posts[i].lat, posts[i].lng)
             kb == distance(latitude, longitude, posts[best].lat, posts[best].lng)
         IN MinFrom(posts, latitude, longitude, i + 1, IF ki < kb THEN i ELSE best)

HasLatLng(p) == {"lat", "lng"} \subseteq DOMAIN p

\* A lookup that hands an empty list to min().
find_nearest_post_NoEmptyCheck(outcome, latitude, longitude) ==
    LET r == get_posts(outcome) IN
    IF r.t = "raise" THEN r
    ELSE IF r.v.t # "array" THEN Raise("TypeError", "string indices must be integers")
    ELSE IF Len(r.v.v) = 0 THEN Raise("ValueError", "min() arg is an empty sequence")
    ELSE IF \E k \in 1..Len(r.v.v) : ~HasLatLng(r.v.v[k]) THEN Raise("KeyError", "lat")
    ELSE Return(r.v.v[MinFrom(r.v.v, latitude, longitude, 1, 1)])
\* find_nearest_post: get_posts, "if not posts: return None", then min().
find_nearest_post(outcome, latitude, longitude) ==
    LET r == get_posts(outcome) IN
    IF r.t = "raise" THEN r
    ELSE IF Falsy(r.v) THEN Return(None)
    ELSE IF r.v.t # "array" THEN Raise("TypeError", "string indices must be integers")
    ELSE IF \E k \in 1..Len(r.v.v) : ~HasLatLng(r.v.v[k]) THEN Raise("KeyError", "lat")
    ELSE Return(r.v.v[MinFrom(r.v.v, latitude, longitude, 1, 1)])

\* --------------------------------------------------------- coordinator.py
\* The config entry data the setup wizard writes (config_flow.py): a fixed
\* station carries post_id; a station found by coordinates carries the
\* post_id found at setup and the coordinates.
FixedConfig(i) == [name |-> "n", post_id |-> i, post_name |-> i]
CoordConfig(i, la, lo) ==
    [name |-> "n", post_id |-> i, post_name |-> i, latitude |-> la, longitude |-> lo]
Configs ==
    {FixedConfig(i) : i \in PostIds}
    \cup {CoordConfig(3, la, 0) : la \in 0..MaxCoord}
NoEntry == [t |-> "NoEntry"]

\* CONF_LATITUDE in self.entry.data and CONF_LONGITUDE in self.entry.data
UsesCoordinates(cfg) == CONF_LATITUDE \in DOMAIN cfg /\ CONF_LONGITUDE \in DOMAIN cfg

\* Requests on the wire.
PostsRequest == [endpoint |-> "posts.json"]
DetailRequest(i) == [endpoint |-> "post-{post_id}.json", post_id |-> i]

\* What a failed cycle raised: its class, the prefix and the message of an
\* UpdateFailed, the class it was raised from and that one's cause.
NoReason == [raised |-> "none", prefix |-> "", msg |-> "", from |-> "none", cause |-> "none"]
UpdateFailed(prefix, r) ==
    [raised |-> "UpdateFailed", prefix |-> prefix, msg |-> r.msg, from |-> r.exc, cause |-> r.cause]

\* The except clauses of _async_update_data without the last one.
ExceptNoCatchAll(r) ==
    IF IsApiConnectionError(r.exc) THEN UpdateFailed("Error communicating with API", r)
    ELSE IF IsApiError(r.exc) THEN UpdateFailed("Error from API", r)
    ELSE [raised |-> r.exc, prefix |-> "", msg |-> r.msg, from |-> "none", cause |-> r.cause]

\* The except clauses of _async_update_data, in their order: what the
\* coroutine raises when its body raised r.
Except(r) ==
    IF IsApiConnectionError(r.exc) THEN UpdateFailed("Error communicating with API", r)
    ELSE IF IsApiError(r.exc) THEN UpdateFailed("Error from API", r)
    ELSE UpdateFailed("Unexpected error", r)

Fail(reason) == [t |-> "fail", reason |-> reason]
Request(i) == [t |-> "request", post_id |-> i]
Publish(d) == [t |-> "publish", data |-> d]

\* A cycle that asks for the stored post_id whatever the entry has.
FirstRequestStored(cfg) == DetailRequest(cfg[CONF_POST_ID])
\* The first request of a cycle: the list in coordinate mode, else the
\* detail of the configured post.
FirstRequest(cfg) ==
    IF UsesCoordinates(cfg) THEN PostsRequest ELSE DetailRequest(cfg[CONF_POST_ID])

\* The id that a cycle asks the detail of, given the nearest post.
NearestIdStored(cfg, nearest_post) == cfg[CONF_POST_ID]

NearestId(cfg, nearest_post) == nearest_post.id

\* The detail request goes out although no post was found.
AfterListNoCheck(cfg, outcome) ==
    LET r == find_nearest_post(outcome, cfg[CONF_LATITUDE], cfg[CONF_LONGITUDE]) IN
    IF r.t = "raise" THEN Fail(Except(r))
    ELSE IF r.v = None THEN Request(cfg[CONF_POST_ID])
    ELSE Request(NearestId(cfg, r.v))

\* _async_update_data from the answer of the list request to its next
\* await (the detail request) or to the exception it raises.
AfterList(cfg, outcome) ==
    LET r == find_nearest_post(outcome, cfg[CONF_LATITUDE], cfg[CONF_LONGITUDE]) IN
    IF r.t = "raise" THEN Fail(Except(r))
    ELSE IF r.v = None
         THEN Fail(Except(Raise("UpdateFailed", "No monitoring posts found")))
    ELSE Request(NearestId(cfg, r.v))

\* A cycle that takes a detail without parameters for no data.
AfterDetail_ParamsRequired(outcome) ==
    LET r == get_post_detail(outcome) IN
    IF r.t = "raise" THEN Fail(Except(r))
    ELSE IF ~IsDict(r.v)
         THEN Fail(Except(Raise("AttributeError", "object has no attribute 'get'")))
    ELSE IF r.v.params.t = "null"
         THEN Fail(Except(Raise("TypeError", "object of type 'NoneType' has no len()")))
    ELSE IF Len(r.v.params.v) = 0
         THEN Fail(Except(Raise("PoltavaAirMonitorApiError", "No data returned for post")))
    ELSE Publish(r.v)
\* _async_update_data from the answer of the detail request to its return
\* or to the exception it raises (data.get on a non-dict, len(None)).
AfterDetail(outcome) ==
    LET r == get_post_detail(outcome) IN
    IF r.t = "raise" THEN Fail(Except(r))
    ELSE IF ~IsDict(r.v)
         THEN Fail(Except(Raise("AttributeError", "object has no attribute 'get'")))
    ELSE IF r.v.params.t = "null"
         THEN Fail(Except(Raise("TypeError", "object of type 'NoneType' has no len()")))
    ELSE Publish(r.v)

\* --------------------------------------------------------- config_flow.py
\* A check that lets an empty answer pass.
validate_input_NoEmptyCheck(outcome) ==
    LET r == get_posts(outcome) IN
    IF r.t = "raise"
    THEN IF IsApiConnectionError(r.exc)
         THEN RaiseFrom("PoltavaAirMonitorApiConnectionError",
                        "Cannot connect to Poltava Air Monitor API", r.exc)
         ELSE r
    ELSE Return([title |-> "n", posts |-> r.v])
\* validate_input: the posts are fetched to see that the API answers.
validate_input(outcome) ==
    LET r == get_posts(outcome) IN
    IF r.t = "raise"
    THEN IF IsApiConnectionError(r.exc)
         THEN RaiseFrom("PoltavaAirMonitorApiConnectionError",
                        "Cannot connect to Poltava Air Monitor API", r.exc)
         ELSE r
    ELSE IF Falsy(r.v)
         THEN Raise("PoltavaAirMonitorApiError", "No monitoring posts available")
         ELSE Return([title |-> "n", posts |-> r.v])

\* What a step of the flow returns.
ShowForm(step_id, errors) == [type |-> "form", step_id |-> step_id, errors |-> errors]
Abort(reason) == [type |-> "abort", reason |-> reason]
CreateEntry(unique_id, entry_data) ==
    [type |-> "create_entry", unique_id |-> unique_id, data |-> entry_data]
\* A step raised an exception that nothing in the flow catches.
Unhandled(exc) == [type |-> "raise", exc |-> exc]
NoResult == [type |-> "none"]

\* The except clauses of async_step_user with the base class first.
UserStepErrors_ApiErrorFirst(r) ==
    IF IsApiError(r.exc) THEN [base |-> "unknown"]
    ELSE IF IsApiConnectionError(r.exc) THEN [base |-> "cannot_connect"]
    ELSE [base |-> "unknown"]
\* The except clauses of async_step_user, in their order: errors["base"].
UserStepErrors(r) ==
    IF IsApiConnectionError(r.exc) THEN [base |-> "cannot_connect"]
    ELSE IF IsApiError(r.exc) THEN [base |-> "unknown"]
    ELSE [base |-> "unknown"]

\* The unique ids of the entries: f"{DOMAIN}_{post_id}" and
\* f"{DOMAIN}_{post_id}_coords".
UniqueId(post_id) == <<"poltava_air_monitor", post_id>>
UniqueIdCoords(post_id) == <<"poltava_air_monitor", post_id, "coords">>

\* The name of a post is written as its id.
PostName(post) == post.id

\* next((post for post in self._posts if post["id"] == post_id), None)
RECURSIVE NextPost(_, _, _)
NextPost(posts, post_id, k) ==
    IF k > Len(posts) THEN None
    ELSE IF posts[k].id = post_id THEN posts[k]
    ELSE NextPost(posts, post_id, k + 1)

\* async_step_station_list with user_input: the entry of the post chosen.
\* An unique id that is configured already aborts the flow (AbortFlow of
\* _abort_if_unique_id_configured, which the flow manager handles).
async_step_station_list(posts, post_id, configured) ==
    LET selected_post == NextPost(posts, post_id, 1) IN
    IF selected_post = None THEN Abort("station_not_found")
    ELSE IF UniqueId(post_id) \in configured THEN Abort("already_configured")
    ELSE CreateEntry(UniqueId(post_id),
                     [name |-> "n", post_id |-> post_id,
                      post_name |-> PostName(selected_post)])

\* async_step_coordinates with user_input: the entry of the nearest post.
\* Every exception in the try block, the AbortFlow of
\* _abort_if_unique_id_configured among them, aborts with "unknown".
async_step_coordinates(outcome, latitude, longitude, configured) ==
    LET r == find_nearest_post(outcome, latitude, longitude) IN
    IF r.t = "raise" THEN Abort("unknown")
    ELSE IF r.v = None THEN Abort("no_stations_found")
    ELSE IF UniqueIdCoords(r.v.id) \in configured THEN Abort("unknown")
    ELSE CreateEntry(UniqueIdCoords(r.v.id),
                     [name |-> "n", post_id |-> r.v.id, post_name |-> PostName(r.v),
                      latitude |-> latitude, longitude |-> longitude])

\* ------------------------------------------------------------------ state
VARIABLES
    config,      \* entry.data of each config entry (NoEntry: none created)
    lifecycle,   \* where the entry is between async_setup_entry and unload
    registry,    \* the keys of hass.data[DOMAIN]
    state,       \* the scheduler: Idle, Fetching, Published, Failed
    running,     \* the number of _async_update_data coroutines in progress
    pc,          \* the await a cycle is suspended at: none, list, detail
    caller,      \* who awaits the cycle: the first refresh or the interval
    requests,    \* the requests the current (or last) cycle has issued
    fetched,     \* the list body the cycle resolved its post from, or None;
                 \* kept until the detail request is settled
    data,        \* coordinator.data, the snapshot
    reason,      \* what the last failed cycle raised
    timer,       \* the interval callback is scheduled
    listeners,   \* the entities are added and listen to the coordinator
    startup,     \* how the first refresh of the running setup ended
    probe,       \* a call of a function of the code: its input and result
    flow         \* the config flow: its step, its posts, what it showed

vars == <<config, lifecycle, registry, state, running, pc, caller, requests,
          fetched, data, reason, timer, listeners, startup, probe, flow>>

cycleVars == <<state, running, pc, caller, requests, fetched, data, reason>>

\* The station: all that setup, refresh and unload work on.
stationVars == <<config, lifecycle, registry, timer, listeners, startup, cycleVars>>

\* No function was called yet; no config flow was started.
NoProbe == [fn |-> "none"]
NoFlow ==
    [step |-> "none", posts |-> JsonArray(<< >>), configured |-> {},
     outcome |-> None, info |-> None, user_input |-> None, result |-> NoResult]

\* ------------------------------------------------------------------- Init
\* No entry is set up yet.  One entry is configured, by either path of the
\* wizard.
InitStation(cfgs) ==
    /\ config \in cfgs
    /\ lifecycle = [e \in Entries |-> "NotLoaded"]
    /\ registry = {}
    /\ state = [e \in Entries |-> "Idle"]
    /\ running = [e \in Entries |-> 0]
    /\ pc = [e \in Entries |-> "none"]
    /\ caller = [e \in Entries |-> "none"]
    /\ requests = [e \in Entries |-> << >>]
    /\ fetched = [e \in Entries |-> None]
    /\ data = [e \in Entries |-> None]
    /\ reason = [e \in Entries |-> NoReason]
    /\ timer = [e \in Entries |-> FALSE]
    /\ listeners = [e \in Entries |-> FALSE]
    /\ startup = [e \in Entries |-> "none"]
    /\ probe = NoProbe
    /\ flow = NoFlow

Init == InitStation({[e \in Entries |-> IF e = "e1" THEN c ELSE NoEntry] : c \in Configs})

\* No entry is configured: the state in which the wizard runs, and in which
\* the functions of the code are called on their own.
NoStation == InitStation({[e \in Entries |-> NoEntry]})

\* --------------------------------------------------------- the scheduler
\* DataUpdateCoordinator, the base class of PoltavaAirMonitorCoordinator,
\* drives the cycles: it awaits _async_update_data, stores what it returns in
\* coordinator.data, keeps the old data when it raises, and schedules the
\* next interval callback when a cycle is over and entities listen.

\* The interval callback is one-shot: taken when it fires, scheduled again
\* when the cycle it started is over.
TimerStaysArmed == TRUE

TimerAfterFire == FALSE

\* coordinator.data after a cycle that ended with result: the returned
\* object as it is, or the data as it was.
SnapshotDroppedOnFailure(old, result) ==
    IF result.t = "publish" THEN result.data ELSE None

SnapshotMerged(old, result) ==
    IF result.t # "publish" THEN old
    ELSE IF old = None THEN result.data
    ELSE [result.data EXCEPT !.params = old.params]

Snapshot(old, result) ==
    IF result.t = "publish" THEN result.data ELSE old

\* async_setup_entry after its first refresh: the except clause swallows a
\* failure of the refresh, and the setup goes on either way.
SetupAbortsOnFailure(result) == IF result.t = "publish" THEN "Forwarding" ELSE "SetupRetry"

SetupContinues(result) == "Forwarding"

\* _async_update_data up to its first await.
StartsCycle(e, who) ==
    /\ state' = [state EXCEPT ![e] = "Fetching"]
    /\ running' = [running EXCEPT ![e] = @ + 1]
    /\ pc' = [pc EXCEPT ![e] = IF FirstRequest(config[e]) = PostsRequest THEN "list" ELSE "detail"]
    /\ caller' = [caller EXCEPT ![e] = who]
    /\ requests' = [requests EXCEPT ![e] = <<FirstRequest(config[e])>>]
    /\ fetched' = [fetched EXCEPT ![e] = None]

\* hass.data[DOMAIN][entry.entry_id] = coordinator, on the keys of the dict.
Registered(reg, entry_id) == reg \cup {entry_id}

\* An unload that drops the dict of the domain.
Popped_Domain(reg, entry_id) == {}

\* hass.data[DOMAIN].pop(entry.entry_id), on the keys of the dict.
Popped(reg, entry_id) == reg \ {entry_id}

\* The coordinator a cycle of entry e works on ("self" in the methods of
\* the coordinator): the object async_setup_entry constructed for that
\* entry, which keeps its entry, its API client and, in the base class, its
\* data as attributes of the instance.
CoordinatorOf_Singleton(e) == "e1"

CoordinatorOf(e) == e

\* The cycle is over: the base class stores the outcome, and the code that
\* awaited the cycle goes on.  After the first refresh async_setup_entry
\* (whose except clause swallows the failure) registers the coordinator and
\* forwards the setup to the sensor platform.
Concludes(e, result) ==
    /\ state' = [state EXCEPT ![CoordinatorOf(e)] =
                     IF result.t = "publish" THEN "Published" ELSE "Failed"]
    /\ data' = [data EXCEPT ![CoordinatorOf(e)] = Snapshot(@, result)]
    /\ reason' = [reason EXCEPT ![CoordinatorOf(e)] =
                     IF result.t = "publish" THEN NoReason ELSE result.reason]
    /\ running' = [running EXCEPT ![e] = @ - 1]
    /\ pc' = [pc EXCEPT ![e] = "none"]
    /\ caller' = [caller EXCEPT ![e] = "none"]
    /\ UNCHANGED requests
    /\ IF caller[e] = "setup"
       THEN /\ registry' = IF SetupContinues(result) = "Forwarding"
                            THEN Registered(registry, e) ELSE registry
            /\ lifecycle' = [lifecycle EXCEPT ![e] = SetupContinues(result)]
            /\ startup' = [startup EXCEPT ![e] = IF result.t = "publish" THEN "ok" ELSE "failed"]
            /\ UNCHANGED timer
       ELSE /\ timer' = [timer EXCEPT ![e] = listeners[e]]
            /\ UNCHANGED <<registry, lifecycle, startup>>

\* A request of the cycle is settled and _async_update_data runs to its
\* next await or to its end.
Settles(e, result, body) ==
    /\ fetched' = [fetched EXCEPT ![e] = body]
    /\ UNCHANGED <<config, listeners, probe, flow>>
    /\ IF result.t = "request"
       THEN /\ pc' = [pc EXCEPT ![e] = "detail"]
            /\ requests' = [requests EXCEPT ![e] = Append(@, DetailRequest(result.post_id))]
            /\ UNCHANGED <<state, running, caller, data, reason, registry,
                           lifecycle, startup, timer>>
       ELSE Concludes(e, result)

\* The local "posts" of find_nearest_post when it returned (a post or
\* None), for the record of the cycle.
Posts(cfg, body) ==
    IF find_nearest_post(Answer(body), cfg[CONF_LATITUDE], cfg[CONF_LONGITUDE]).t = "return"
    THEN body ELSE None

\* The post whose detail is awaited.
Requested(e) == requests[e][Len(requests[e])].post_id

\* async_timeout.timeout(DEFAULT_TIMEOUT) around the whole request: the
\* deadline expires while a request is in flight.
NoRequestDeadline(e) == FALSE

RequestDeadline(e) == pc[e] # "none"

\* ---------------------------------------------------------------- actions
\* async_setup_entry: a new coordinator, and its first refresh begins.
SetupEntry(e) ==
    /\ config[e] # NoEntry
    /\ lifecycle[e] = "NotLoaded"
    /\ running[e] = 0
    /\ lifecycle' = [lifecycle EXCEPT ![e] = "SettingUp"]
    /\ data' = [data EXCEPT ![e] = None]
    /\ reason' = [reason EXCEPT ![e] = NoReason]
    /\ startup' = [startup EXCEPT ![e] = "none"]
    /\ StartsCycle(e, "setup")
    /\ UNCHANGED <<config, registry, timer, listeners, probe, flow>>

\* sensor.async_setup_entry, forwarded from async_setup_entry: the entities
\* are added and listen; the first listener schedules the interval callback.
\* async_setup_entry returns True.
ForwardEntrySetups(e) ==
    /\ lifecycle[e] = "Forwarding"
    /\ lifecycle' = [lifecycle EXCEPT ![e] = "Loaded"]
    /\ listeners' = [listeners EXCEPT ![e] = TRUE]
    /\ timer' = [timer EXCEPT ![e] = TRUE]
    /\ UNCHANGED <<config, registry, startup, cycleVars, probe, flow>>

\* The interval callback fires and starts a cycle.
HandleRefreshInterval(e) ==
    /\ timer[e]
    /\ timer' = [timer EXCEPT ![e] = TimerAfterFire]
    /\ StartsCycle(e, "interval")
    /\ UNCHANGED <<config, lifecycle, registry, data, reason, listeners, startup, probe, flow>>

\* The list request is answered with a decoded body.
ListAnswers(e) ==
    /\ pc[e] = "list"
    /\ \E body \in ListBodies :
          Settles(e, AfterList(config[e], Answer(body)), Posts(config[e], body))

\* The detail request is answered with a decoded body.
DetailAnswers(e) ==
    /\ pc[e] = "detail"
    /\ \E body \in DetailBodies(Requested(e)) :
          Settles(e, AfterDetail(Answer(body)), None)

\* The request in flight raises: transport, HTTP status, decoding.
RequestFails(e) ==
    /\ pc[e] # "none"
    /\ \E exc \in RequestExceptions \ {"TimeoutError"} :
          Settles(e, IF pc[e] = "list" THEN AfterList(config[e], Fault(exc))
                     ELSE AfterDetail(Fault(exc)), None)

\* The request in flight runs into its deadline.
RequestTimesOut(e) ==
    /\ pc[e] # "none"
    /\ RequestDeadline(e)
    /\ Settles(e, IF pc[e] = "list" THEN AfterList(config[e], Fault("TimeoutError"))
                  ELSE AfterDetail(Fault("TimeoutError")), None)

\* async_unload_entry: the platforms are unloaded (the entities stop
\* listening, and with the last listener the interval callback is
\* unscheduled), then the coordinator is popped.  When the unload of the
\* platforms fails nothing is popped.  The code does not stop a refresh that
\* is in progress: whether the host cancels it is the host's choice.
UnloadEntry(e) ==
    /\ lifecycle[e] = "Loaded"
    /\ \E unload_ok \in BOOLEAN :
          IF unload_ok
          THEN /\ registry' = Popped(registry, e)
               /\ lifecycle' = [lifecycle EXCEPT ![e] = "NotLoaded"]
               /\ listeners' = [listeners EXCEPT ![e] = FALSE]
               /\ timer' = [timer EXCEPT ![e] = FALSE]
               /\ \E cancelled \in BOOLEAN :
                     IF cancelled /\ running[e] > 0
                     THEN /\ running' = [running EXCEPT ![e] = 0]
                          /\ pc' = [pc EXCEPT ![e] = "none"]
                          /\ caller' = [caller EXCEPT ![e] = "none"]
                          /\ state' = [state EXCEPT ![e] = "Idle"]
                          /\ UNCHANGED <<requests, fetched, data, reason>>
                     ELSE UNCHANGED cycleVars
               /\ UNCHANGED <<config, startup, probe, flow>>
          ELSE /\ lifecycle' = [lifecycle EXCEPT ![e] = "FailedUnload"]
               /\ UNCHANGED <<config, registry, timer, listeners, startup, cycleVars,
                               probe, flow>>

Running ==
    \E e \in Entries :
        \/ SetupEntry(e)
        \/ ForwardEntrySetups(e)
        \/ HandleRefreshInterval(e)
        \/ ListAnswers(e)
        \/ DetailAnswers(e)
        \/ RequestFails(e)
        \/ RequestTimesOut(e)

Next == Running \/ \E e \in Entries : UnloadEntry(e)

Spec == Init /\ [][Next]_vars

\* The entries stay loaded, and the event loop runs the deadline of every
\* request in flight.
FairSpec ==
    /\ Init
    /\ [][Running]_vars
    /\ \A e \in Entries : WF_vars(RequestTimesOut(e))

\* What an entity reads (self.coordinator.data in _get_param_data and in
\* native_value): the snapshot of the moment, in one step of the event loop.
VisibleSnapshot(e) == data[e]

\* ================================================================ claims

\* C1: a refresh cycle that fails (timeout, transport error, API error)
\* leaves the snapshot visible to the entities exactly as it was before the
\* cycle: no step of a cycle but the one that publishes changes the
\* snapshot, and the failing step changes nothing but the scheduler (its
\* state, its reason, its next callback).
C1_FailedCycleKeepsSnapshot ==
    [][\A e \in Entries :
          /\ (state[e] = "Fetching" /\ state'[e] # "Published")
                => VisibleSnapshot(e)' = VisibleSnapshot(e)
          /\ (state[e] = "Fetching" /\ state'[e] = "Failed")
                => /\ reason'[e].raised # "none"
                   /\ UNCHANGED <<config, listeners, registry \ {e}>>]_vars

\* A published snapshot has survived a cycle that timed out.
C1_Witness ==
    \E e \in Entries :
        /\ state[e] = "Failed"
        /\ reason[e].cause = "TimeoutError"
        /\ VisibleSnapshot(e) \in PostDetails

\* C2: whatever fails inside a cycle (connection error, API error, any other
\* exception such as a post record without lat/lng) leaves
\* _async_update_data as UpdateFailed only; the cycle ends in Failed with no
\* coroutine left running, and while entities listen the next interval
\* callback is scheduled, so a later cycle can still publish.
C2_FailureIsUpdateFailed ==
    \A e \in Entries :
        state[e] = "Failed" =>
            /\ reason[e].raised = "UpdateFailed"
            /\ running[e] = 0
            /\ (listeners[e] => timer[e])

\* A post record without coordinates has failed a cycle of a loaded entry,
\* and the next cycle is scheduled.
C2_Witness ==
    \E e \in Entries :
        /\ state[e] = "Failed"
        /\ lifecycle[e] = "Loaded"
        /\ reason[e].from = "KeyError"
        /\ reason[e].prefix = "Unexpected error"
        /\ timer[e]

C4_SnapshotWholesale ==
    \A e \in Entries :
        /\ VisibleSnapshot(e) = None \/ VisibleSnapshot(e) \in PostDetails
        /\ state[e] = "Published" =>
              /\ VisibleSnapshot(e) \in PostDetails
              /\ VisibleSnapshot(e).id = Requested(e)

\* After a first refresh that published, a cycle of the interval has
\* published a snapshot with params.
C4_Witness ==
    \E e \in Entries :
        /\ state[e] = "Published"
        /\ caller[e] = "none"
        /\ startup[e] = "ok"
        /\ timer[e]
        /\ VisibleSnapshot(e).value = MaxVersion
        /\ Len(VisibleSnapshot(e).params.v) = MaxVersion - 1

\* The posts of a list body at the smallest distance of a point, the
\* earliest of them first.
IsNearestEarliest(posts, k, latitude, longitude) ==
    /\ k \in 1..Len(posts)
    /\ \A j \in 1..Len(posts) :
          distance(latitude, longitude, posts[k].lat, posts[k].lng)
             <= distance(latitude, longitude, posts[j].lat, posts[j].lng)
    /\ \A j \in 1..(k - 1) :
          distance(latitude, longitude, posts[k].lat, posts[k].lng)
             < distance(latitude, longitude, posts[j].lat, posts[j].lng)

\* C5: with latitude and longitude in the configuration a cycle first asks
\* for the list and then for the detail of the nearest post of the list it
\* just got (the earliest of the nearest), whatever post_id the entry
\* stores; without them it asks for the detail of the configured post_id
\* and never for the list.
C5_PostChosenByConfiguration ==
    \A e \in Entries :
        requests[e] # << >> =>
            IF UsesCoordinates(config[e])
            THEN /\ requests[e][1] = PostsRequest
                 /\ Len(requests[e]) <= 2
                 /\ pc[e] = "detail" =>
                       /\ Len(requests[e]) = 2
                       /\ fetched[e].t = "array"
                       /\ \E k \in 1..Len(fetched[e].v) :
                             /\ IsNearestEarliest(fetched[e].v, k,
                                   config[e][CONF_LATITUDE], config[e][CONF_LONGITUDE])
                             /\ requests[e][2] = DetailRequest(fetched[e].v[k].id)
            ELSE requests[e] = <<DetailRequest(config[e][CONF_POST_ID])>>

\* In coordinate mode the detail of a post other than the stored post_id is
\* awaited, out of a list of two posts.
C5_Witness ==
    \E e \in Entries :
        /\ UsesCoordinates(config[e])
        /\ pc[e] = "detail"
        /\ Len(fetched[e].v) = 2
        /\ requests[e][2].post_id # config[e][CONF_POST_ID]

\* C6: in coordinate mode, when the list that came back is empty (or null),
\* so that the resolution finds no post, the cycle ends in Failed, raised as
\* UpdateFailed with the message "No monitoring posts found" (under the
\* prefix of the last except clause), and the list request is the only
\* request of the cycle.
C6_NoPostsFound ==
    \A e \in Entries :
        (UsesCoordinates(config[e]) /\ fetched[e] # None /\ Falsy(fetched[e])) =>
            /\ state[e] = "Failed"
            /\ reason[e].raised = "UpdateFailed"
            /\ reason[e].msg = "No monitoring posts found"
            /\ requests[e] = <<PostsRequest>>

\* A cycle has got the empty list.
C6_Witness ==
    \E e \in Entries :
        /\ fetched[e] = JsonArray(<< >>)
        /\ state[e] = "Failed"
        /\ reason[e].from = "UpdateFailed"

\* C7: a failed first refresh does not fail the setup: when the refresh is
\* over, async_setup_entry registers the coordinator and forwards to the
\* sensor platform whatever the outcome; a loaded entry is registered, its
\* entities listen, and a cycle is scheduled or in progress.
C7_StartupFailureNotFatal ==
    /\ [](\A e \in Entries :
            /\ lifecycle[e] \in {"Forwarding", "Loaded"} => e \in registry
            /\ lifecycle[e] = "Loaded" =>
                  /\ listeners[e]
                  /\ timer[e] \/ running[e] = 1)
    /\ [][\A e \in Entries :
            /\ (lifecycle[e] = "SettingUp" /\ lifecycle'[e] # "SettingUp")
                  => (lifecycle'[e] = "Forwarding" /\ e \in registry')
            /\ (lifecycle[e] = "Forwarding" /\ lifecycle'[e] # "Forwarding")
                  => lifecycle'[e] = "Loaded"]_vars

\* The first refresh failed, the entry got loaded, and a later cycle has
\* published.
C7_Witness ==
    \E e \in Entries :
        /\ startup[e] = "failed"
        /\ lifecycle[e] = "Loaded"
        /\ state[e] = "Published"
        /\ VisibleSnapshot(e) # None

\* C9: the scheduler moves Idle -> Fetching -> {Published, Failed} ->
\* Fetching ... (Published and Failed are where it rests until the next
\* callback), and every cycle that is Fetching ends in Published or Failed:
\* the deadline of the request in flight ends a cycle whose upstream never
\* answers, in coordinate mode for the list request and for the detail
\* request alike.
C9_CycleTerminates ==
    /\ [][\A e \in Entries :
            state'[e] # state[e] =>
                \/ state[e] \in {"Idle", "Published", "Failed"} /\ state'[e] = "Fetching"
                \/ state[e] = "Fetching" /\ state'[e] \in {"Published", "Failed"}]_vars
    /\ \A e \in Entries :
          (state[e] = "Fetching") ~> (state[e] \in {"Published", "Failed"})

\* In coordinate mode the detail request, the second of its cycle, has run
\* into the deadline.
C9_Witness ==
    \E e \in Entries :
        /\ state[e] = "Failed"
        /\ Len(requests[e]) = 2
        /\ reason[e].cause = "TimeoutError"
        /\ reason[e].msg = "Timeout connecting to API"

\* C10 (as claimed): a request that fails is raised by kind: a transport
\* failure or a timeout as PoltavaAirMonitorApiConnectionError, malformed
\* JSON and an HTTP error status as the generic PoltavaAirMonitorApiError,
\* and nothing else leaves _api_request.
C10_FailureKinds ==
    \A e \in Entries :
        (state[e] = "Failed" /\ reason[e].cause \in RequestExceptions) =>
            /\ reason[e].from \in ApiErrorClasses
            /\ reason[e].cause \in {"ClientConnectorError", "TimeoutError"}
                  => reason[e].from = "PoltavaAirMonitorApiConnectionError"
            /\ reason[e].cause \in {"JSONDecodeError", "ClientResponseError"}
                  => reason[e].from = "PoltavaAirMonitorApiError"

\* ------------------------------------------------------- calls of the code
\* The functions of the client called on their own, on every outcome of the
\* request they make.
QueryCoords == 0..MaxCoord

CallGetPostDetail ==
    /\ probe.fn = "none"
    /\ \E i \in PostIds :
          \E outcome \in Outcomes(DetailBodies(i) \cup {JsonEmptyObject}) :
             probe' = [fn |-> "get_post_detail", outcome |-> outcome,
                       result |-> get_post_detail(outcome)]
    /\ UNCHANGED <<stationVars, flow>>

CallFindNearestPost ==
    /\ probe.fn = "none"
    /\ \E outcome \in Outcomes(ListBodies \cup {JsonEmptyObject}) :
          \E latitude \in QueryCoords, longitude \in QueryCoords :
             probe' = [fn |-> "find_nearest_post", outcome |-> outcome,
                       latitude |-> latitude, longitude |-> longitude,
                       result |-> find_nearest_post(outcome, latitude, longitude)]
    /\ UNCHANGED <<stationVars, flow>>

\* The label of the parameter of the upstream that the documentation of the
\* mapping names, and a text that names no parameter.
ExampleLabel ==
    <<"<", "b", ">", "TCh", "2", ",", "5", "<", "/", "b", ">", ",", "&", "nbsp;", "mkg/m",
      "<", "s", "u", "p", ">", "3", "<", "/", "s", "u", "p", ">">>
RandomLabel == <<"R", "a", "n", "d", "o", "m", " ", "U", "n", "r", "e", "l", "a", "t", "e", "d", " ", "T", "e", "x", "t">>

\* Texts of markup, entities and whitespace.
MarkupAlphabet == {"<", ">", "&", "lt;", "gt;", "amp;", "nbsp;", " ", "b"}
\* Names made of keys of the mapping and what follows them.
NameAlphabet == {"TCh", "1", "0", "Tysk", " "}
Names ==
    {default_sensors[k][2] : k \in 1..Len(default_sensors)}
    \cup {ExampleLabel, RandomLabel}
    \cup SeqsUpTo(NameAlphabet, MaxLen)

CallCleanHtml ==
    /\ probe.fn = "none"
    /\ \E text \in SeqsUpTo(MarkupAlphabet, MaxLen) \cup Names :
          probe' = [fn |-> "clean_html", text |-> text, result |-> clean_html(text)]
    /\ UNCHANGED <<stationVars, flow>>

CallGetSensorTypeFromName ==
    /\ probe.fn = "none"
    /\ \E name \in Names :
          probe' = [fn |-> "get_sensor_type_from_name", name |-> name,
                    result |-> get_sensor_type_from_name(name)]
    /\ UNCHANGED <<stationVars, flow>>

\* A parameter of a detail with its readings.
Reading(name, current, average, quality) ==
    [name |-> name, currentValue |-> Number(current),
     avgDailyValue |-> Number(average), qualityIndex |-> Number(quality)]
Readings == 0..MaxReading
QualityIndexes == (-1)..MaxReading
\* Parameters of three channels whose zero may be suppressed, of one whose
\* zero is not, and of no channel.
ReadingNames ==
    {default_sensors[4][2], default_sensors[11][2], default_sensors[12][2],
     ExampleLabel, RandomLabel}
ReadingParams ==
    {Reading(name, c, a, q) :
        name \in ReadingNames, c \in Readings, a \in Readings, q \in QualityIndexes}
\* Parameters that stand before another one in a detail.
Leads ==
    {Reading(RandomLabel, 0, 0, 0), Reading(default_sensors[4][2], 0, 0, 0),
     Reading(default_sensors[11][2], MaxReading, MaxReading, MaxReading)}
\* The snapshots a sensor may read: none, or a detail with its params.
SnapshotOf(params) == [PostDetail(1, 1) EXCEPT !.params = JsonArray(params)]
Snapshots ==
    {None}
    \cup {SnapshotOf(lead \o last) :
            lead \in SeqsUpTo(Leads, MaxParams - 1),
            last \in {<< >>} \cup {<<p>> : p \in ReadingParams}}
SensorTypes == {SENSOR_NAME_MAPPING[k].type : k \in 1..Len(SENSOR_NAME_MAPPING)}

ReadNativeValue ==
    /\ probe.fn = "none"
    /\ \E snapshot \in Snapshots, sensor_type \in SensorTypes :
          probe' = [fn |-> "native_value", data |-> snapshot, sensor_type |-> sensor_type,
                    result |-> native_value(snapshot, sensor_type)]
    /\ UNCHANGED <<stationVars, flow>>

ReadExtraStateAttributes ==
    /\ probe.fn = "none"
    /\ \E snapshot \in Snapshots, sensor_type \in SensorTypes :
          probe' = [fn |-> "extra_state_attributes", data |-> snapshot,
                    sensor_type |-> sensor_type,
                    result |-> extra_state_attributes(snapshot, sensor_type)]
    /\ UNCHANGED <<stationVars, flow>>

\* A sensor looks its parameter up in the snapshot.
ReadParamData ==
    /\ probe.fn = "none"
    /\ \E snapshot \in Snapshots, sensor_type \in SensorTypes :
          probe' = [fn |-> "_get_param_data", data |-> snapshot,
                    sensor_type |-> sensor_type,
                    result |-> _get_param_data(snapshot, sensor_type)]
    /\ UNCHANGED <<stationVars, flow>>

\* The sensor platform is set up for an entry whose coordinator holds a
\* snapshot, or none.
CallSensorSetup ==
    /\ probe.fn = "none"
    /\ \E snapshot \in Snapshots, entry_id \in Entries :
          probe' = [fn |-> "sensor.async_setup_entry", entry_id |-> entry_id,
                    data |-> snapshot, entities |-> Entities(snapshot),
                    unique_ids |-> UniqueIds(entry_id, snapshot)]
    /\ UNCHANGED <<stationVars, flow>>

\* One cycle of a station of post i from construction: the detail request
\* is answered, the base class stores what the cycle returned, and the
\* sensor platform is set up on it.
CallAsyncUpdateData ==
    /\ probe.fn = "none"
    /\ \E i \in PostIds :
          \E outcome \in Outcomes(DetailBodies(i)) :
             LET result == AfterDetail(outcome)
                 snapshot == Snapshot(None, result)
             IN probe' = [fn |-> "_async_update_data", post_id |-> i,
                          request |-> FirstRequest(FixedConfig(i)),
                          outcome |-> outcome, result |-> result, data |-> snapshot,
                          entities |-> Entities(snapshot)]
    /\ UNCHANGED <<stationVars, flow>>

\* The caller is done with the result.
CallReturns ==
    /\ probe.fn # "none"
    /\ probe' = NoProbe
    /\ UNCHANGED <<stationVars, flow>>

CallNext ==
    \/ CallGetPostDetail
    \/ CallFindNearestPost
    \/ CallCleanHtml
    \/ CallGetSensorTypeFromName
    \/ ReadNativeValue
    \/ ReadExtraStateAttributes
    \/ ReadParamData
    \/ CallSensorSetup
    \/ CallAsyncUpdateData
    \/ CallReturns

CallSpec == NoStation /\ [][CallNext]_vars

\* The body a call of fn got from a request that succeeded.
Got(fn) == probe.fn = fn /\ probe.outcome.t = "json"

\* C11: when the request of get_post_detail succeeded but the decoded body
\* is empty, is no array or is an array of no elements, the call raises
\* PoltavaAirMonitorApiError itself, not the connection error, and from no
\* other exception; when the body is an array with elements, the call
\* returns the first of them.
C11_DetailShape ==
    Got("get_post_detail") =>
        LET body == probe.outcome.body IN
        IF body.t # "array" \/ Len(body.v) = 0
        THEN /\ probe.result.t = "raise"
             /\ probe.result.exc = "PoltavaAirMonitorApiError"
             /\ ~IsApiConnectionError(probe.result.exc)
             /\ probe.result.cause = "none"
        ELSE probe.result = Return(body.v[1])

\* The request succeeded with an array of no elements and the call raised.
C11_Witness ==
    /\ Got("get_post_detail")
    /\ probe.outcome.body = JsonArray(<< >>)
    /\ probe.result.t = "raise"

\* The list a lookup got is a list of post summaries with an element.
WellFormedList(body) ==
    /\ body.t = "array"
    /\ Len(body.v) > 0
    /\ \A k \in 1..Len(body.v) : HasLatLng(body.v[k])

\* C12: for every list of post summaries with an element and every query
\* coordinate, the lookup returns an element of that list whose distance to
\* the query is at most every other element's, the earliest such element.
C12_NearestEarliest ==
    (Got("find_nearest_post") /\ WellFormedList(probe.outcome.body)) =>
        /\ probe.result.t = "return"
        /\ \E k \in 1..Len(probe.outcome.body.v) :
              /\ probe.result.v = probe.outcome.body.v[k]
              /\ IsNearestEarliest(probe.outcome.body.v, k,
                                   probe.latitude, probe.longitude)

\* A tie: two posts at the same distance from the query, the first of the
\* list returned.
C12_Witness ==
    /\ Got("find_nearest_post")
    /\ WellFormedList(probe.outcome.body)
    /\ Len(probe.outcome.body.v) = 2
    /\ probe.outcome.body.v[1] # probe.outcome.body.v[2]
    /\ distance(probe.latitude, probe.longitude,
                probe.outcome.body.v[1].lat, probe.outcome.body.v[1].lng)
         = distance(probe.latitude, probe.longitude,
                    probe.outcome.body.v[2].lat, probe.outcome.body.v[2].lng)
    /\ probe.result = Return(probe.outcome.body.v[1])

\* C13: for an empty post list the lookup returns None and raises nothing.
C13_EmptyListIsNone ==
    (Got("find_nearest_post") /\ probe.outcome.body = JsonArray(<< >>)) =>
        probe.result = Return(None)

\* The lookup was called on an empty list.
C13_Witness ==
    /\ Got("find_nearest_post")
    /\ probe.outcome.body = JsonArray(<< >>)
    /\ probe.result.t = "return"

\* The entries of the mapping whose key is in the cleaned name.
Hits(name) ==
    {k \in 1..Len(SENSOR_NAME_MAPPING) :
        Contains(SENSOR_NAME_MAPPING[k].key, clean_html(name))}

\* C14: the classification of a name is the sensor type of the first entry,
\* in the order of the table of twelve, whose key is a substring of the
\* cleaned name, and None when no key is; the label
\* "<b>ТЧ2,5</b>,&nbsp;мкг/м<sup>3</sup>" is PM2.5 and "Random Unrelated
\* Text" is None.
C14_FirstKeyInTableOrder ==
    probe.fn = "get_sensor_type_from_name" =>
        /\ Len(SENSOR_NAME_MAPPING) = 12
        /\ IF Hits(probe.name) = {}
           THEN probe.result = None
           ELSE \E k \in Hits(probe.name) :
                   /\ \A h \in Hits(probe.name) : k <= h
                   /\ probe.result = Str(SENSOR_NAME_MAPPING[k].type)
        /\ probe.name = ExampleLabel => probe.result = Str(SENSOR_TYPE_PM25)
        /\ probe.name = RandomLabel => probe.result = None

\* A name in which two keys are found was given the type of the earlier key.
C14_Witness ==
    /\ probe.fn = "get_sensor_type_from_name"
    /\ \E k, h \in Hits(probe.name) :
          /\ k < h
          /\ SENSOR_NAME_MAPPING[k].type # SENSOR_NAME_MAPPING[h].type
          /\ probe.result = Str(SENSOR_NAME_MAPPING[k].type)

\* C15: cleaning is idempotent: a cleaned text cleaned again is the same
\* text, for every text, also one with escaped entities in it.
C15_CleanIdempotent ==
    probe.fn = "clean_html" => clean_html(probe.result) = probe.result

\* The places of the parameters of a channel in a snapshot.
PlacesOf(snapshot, sensor_type) ==
    IF snapshot = None THEN {}
    ELSE {k \in 1..Len(snapshot.params.v) :
            get_sensor_type_from_name(snapshot.params.v[k].name) = Str(sensor_type)}
\* The parameter a sensor of a channel present in the snapshot reads.
ParamOf(snapshot, sensor_type) ==
    LET places == PlacesOf(snapshot, sensor_type)
    IN snapshot.params.v[CHOOSE k \in places : \A h \in places : k <= h]

\* C16: the value of a sensor whose channel is present in the snapshot is
\* None exactly when the channel is wind speed, wind direction or ozone and
\* currentValue, avgDailyValue and qualityIndex are all 0; in every other
\* case, a zero of another channel and a zero with a daily average or a
\* quality index that is not zero among them, it is currentValue itself.
C16_ZeroSuppression ==
    (probe.fn = "native_value" /\ PlacesOf(probe.data, probe.sensor_type) # {}) =>
        LET p == ParamOf(probe.data, probe.sensor_type)
            suppressed ==
                /\ probe.sensor_type \in {"wind_speed", "wind_direction", "ozone"}
                /\ p.currentValue.v = 0
                /\ p.avgDailyValue.v = 0
                /\ p.qualityIndex.v = 0
        IN /\ (probe.result = None) <=> suppressed
           /\ ~suppressed => probe.result = p.currentValue

\* A wind speed of 0 with a daily average that is not 0 is shown as 0.
C16_Witness ==
    /\ probe.fn = "native_value"
    /\ probe.sensor_type = "wind_speed"
    /\ PlacesOf(probe.data, probe.sensor_type) # {}
    /\ ParamOf(probe.data, probe.sensor_type).currentValue.v = 0
    /\ ParamOf(probe.data, probe.sensor_type).avgDailyValue.v # 0
    /\ probe.result = Number(0)

GotEmptyParams ==
    /\ Got("_async_update_data")
    /\ probe.outcome.body.t = "array"
    /\ Len(probe.outcome.body.v) > 0
    /\ IsDict(probe.outcome.body.v[1])
    /\ probe.outcome.body.v[1].params = JsonArray(<< >>)

\* C17: a detail whose params are empty is no error: the cycle returns it
\* and it becomes the snapshot; the AQI sensor shows value, index,
\* description, recommendation, updated and the name, address and type of
\* the station as the detail has them; no parameter sensor is made and no
\* sensor type finds a parameter in the snapshot.
C17_EmptyParamsPublished ==
    GotEmptyParams =>
        LET detail == probe.outcome.body.v[1] IN
        /\ probe.result = Publish(detail)
        /\ probe.data = detail
        /\ aqi_native_value(probe.data) = detail.value
        /\ aqi_extra_state_attributes(probe.data) =
              [index |-> detail.index, description |-> detail.qualityDesc,
               recommendation |-> detail.qualityRecommendation,
               updated |-> detail.updated, station_name |-> detail.name,
               station_address |-> detail.address, station_type |-> detail.description]
        /\ probe.entities = <<SENSOR_TYPE_AQI>>
        /\ \A sensor_type \in SensorTypes :
              /\ _get_param_data(probe.data, sensor_type) = None
              /\ native_value(probe.data, sensor_type) = None
              /\ extra_state_attributes(probe.data, sensor_type) = EmptyDict

\* A cycle got a detail without parameters and returned.
C17_Witness ==
    /\ GotEmptyParams
    /\ probe.result.t = "publish"
    /\ Len(probe.entities) = 1

\* ------------------------------------------------------------ the config flow
\* The wizard: a flow is started, the user step checks the API, the station
\* step offers the two ways, and the last step makes the entry or aborts.
\* "configured" are the unique ids of the entries made by earlier flows.
\* A flow that made its entry or aborted is over, and its object is gone;
\* what is kept of it is the input and the answer its last step had.
FlowAt(step, posts, configured, outcome, info, result) ==
    [step |-> step, posts |-> posts, configured |-> configured,
     outcome |-> outcome, info |-> info, user_input |-> None, result |-> result]

\* async_step_user(None) of a new flow: __init__, then the empty form.
StartFlow ==
    /\ flow.step \in {"none", "done"}
    /\ flow' = FlowAt("user", JsonArray(<< >>), flow.configured, None, None,
                      ShowForm("user", EmptyDict))
    /\ UNCHANGED <<stationVars, probe>>

\* async_step_user(user_input): validate_input; then the station form, or
\* the user form again with the error.
StepUser ==
    /\ flow.step = "user"
    /\ \E outcome \in Outcomes(ListBodies \cup {JsonEmptyObject}) :
          LET info == validate_input(outcome) IN
          flow' = IF info.t = "return"
                  THEN FlowAt("station", info.v.posts, flow.configured, outcome, info,
                              ShowForm("station", EmptyDict))
                  ELSE FlowAt("user", flow.posts, flow.configured, outcome, info,
                              ShowForm("user", UserStepErrors(info)))
    /\ UNCHANGED <<stationVars, probe>>

\* async_step_station(user_input): the form of the way chosen.  The form of
\* the list is made of post["id"], post["name"], post["address"] of every
\* post; posts that are no list of posts raise there.  The coordinates step
\* fetches the posts again and reads self._posts no more, so the flow goes
\* on without them.
StepStation ==
    /\ flow.step = "station"
    /\ \E selection \in {"list", "coordinates"} :
          flow' = IF selection = "coordinates"
                  THEN FlowAt("coordinates", JsonArray(<< >>), flow.configured, None, None,
                              ShowForm("coordinates", EmptyDict))
                  ELSE IF flow.posts.t # "array"
                  THEN FlowAt("station", flow.posts, flow.configured, None, None,
                              Unhandled("TypeError"))
                  ELSE FlowAt("station_list", flow.posts, flow.configured, None, None,
                              ShowForm("station_list", EmptyDict))
    /\ UNCHANGED <<stationVars, probe>>

\* What a flow leaves behind: the unique id of the entry it made.
Configured(configured, result) ==
    IF result.type = "create_entry" THEN configured \cup {result.unique_id} ELSE configured

\* The ids user_input[CONF_POST_ID] may carry: the form offers the ids of
\* self._posts; the step itself takes whatever id it is called with.
SelectablePostIds == {post.id : post \in PostRecords}

\* async_step_station_list(user_input): a post is chosen.
StepStationList ==
    /\ flow.step = "station_list"
    /\ \E post_id \in SelectablePostIds :
          LET result == async_step_station_list(flow.posts.v, post_id, flow.configured)
          IN flow' = [FlowAt("done", JsonArray(<< >>),
                             Configured(flow.configured, result), None, None, result)
                         EXCEPT !.user_input = [post_id |-> post_id]]
    /\ UNCHANGED <<stationVars, probe>>

\* async_step_coordinates(user_input): the posts are fetched again.
StepCoordinates ==
    /\ flow.step = "coordinates"
    /\ \E outcome \in Outcomes(ListBodies \cup {JsonEmptyObject}) :
          \E latitude \in QueryCoords, longitude \in QueryCoords :
             LET result == async_step_coordinates(outcome, latitude, longitude,
                                                  flow.configured)
             IN flow' = [FlowAt("done", JsonArray(<< >>),
                                Configured(flow.configured, result), outcome, None, result)
                            EXCEPT !.user_input = [latitude |-> latitude,
                                                   longitude |-> longitude]]
    /\ UNCHANGED <<stationVars, probe>>

FlowNext == StartFlow \/ StepUser \/ StepStation \/ StepStationList \/ StepCoordinates

FlowSpec == NoStation /\ [][FlowNext]_vars

\* The flow made an entry.
Created == flow.result.type = "create_entry"

\* C19 as the claim has it: every configuration the wizard makes carries
\* either a post_id or a latitude/longitude pair and never both; with the
\* pair the cycle resolves the nearest post, without it the cycle asks for
\* the post_id.
C19_MutuallyExclusive ==
    Created =>
        LET entry_data == flow.result.data IN
        /\ (CONF_POST_ID \in DOMAIN entry_data) # UsesCoordinates(entry_data)
        /\ (CONF_LATITUDE \in DOMAIN entry_data) <=> (CONF_LONGITUDE \in DOMAIN entry_data)
        /\ UsesCoordinates(entry_data) => FirstRequest(entry_data) = PostsRequest
        /\ ~UsesCoordinates(entry_data)
              => FirstRequest(entry_data) = DetailRequest(entry_data[CONF_POST_ID])

\* C19, amended: every configuration the wizard makes carries a post_id;
\* it carries latitude and longitude too, both of them, exactly when it was
\* made from coordinates.  With the pair the cycle resolves the nearest post
\* and goes on the same whatever post_id is stored; without it the cycle
\* asks for the post_id.
C19_PostIdAlwaysCoordinatesDecide ==
    Created =>
        LET entry_data == flow.result.data IN
        /\ CONF_POST_ID \in DOMAIN entry_data
        /\ (CONF_LATITUDE \in DOMAIN entry_data) <=> (CONF_LONGITUDE \in DOMAIN entry_data)
        /\ UsesCoordinates(entry_data)
              <=> flow.result.unique_id = UniqueIdCoords(entry_data[CONF_POST_ID])
        /\ UsesCoordinates(entry_data) =>
              /\ FirstRequest(entry_data) = PostsRequest
              /\ \A body \in ListBodies, i \in PostIds :
                    AfterList(entry_data, Answer(body))
                       = AfterList([entry_data EXCEPT ![CONF_POST_ID] = i], Answer(body))
        /\ ~UsesCoordinates(entry_data)
              => FirstRequest(entry_data) = DetailRequest(entry_data[CONF_POST_ID])

\* The flow made an entry from coordinates: it has the pair and a post_id.
C19_Witness ==
    /\ Created
    /\ UsesCoordinates(flow.result.data)
    /\ CONF_POST_ID \in DOMAIN flow.result.data

\* C20: when the check of the user step fails with the connection error
\* the user form is shown again with the error "cannot_connect"; when it
\* fails with PoltavaAirMonitorApiError, as it does on an empty post list,
\* or with any other exception, the form is shown again with "unknown"; the
\* flow stays at the user step and no entry is made.
C20_UserStepErrors ==
    /\ [](flow.info # None /\ flow.info.t = "raise" =>
             /\ flow.step = "user"
             /\ flow.result =
                   ShowForm("user",
                            [base |-> IF flow.info.exc = "PoltavaAirMonitorApiConnectionError"
                                      THEN "cannot_connect" ELSE "unknown"])
             /\ flow.outcome.t = "json" =>
                   /\ Falsy(flow.outcome.body)
                   /\ flow.info.exc = "PoltavaAirMonitorApiError"
                   /\ flow.result.errors.base = "unknown")
    /\ [][flow.step = "user" /\ flow'.info # None /\ flow'.info.t = "raise" =>
             /\ flow'.step = "user"
             /\ flow'.configured = flow.configured
             /\ flow'.posts = flow.posts]_vars

\* The API answered the user step with an empty list of posts.
C20_Witness ==
    /\ flow.step = "user"
    /\ flow.info # None
    /\ flow.info.t = "raise"
    /\ flow.outcome = Answer(JsonArray(<< >>))
    /\ flow.result.errors = [base |-> "unknown"]

\* A decoded body that is a list of posts with a post in it.
NonEmptyPostList(body) == body.t = "array" /\ Len(body.v) > 0

\* The ids of the posts of a list.
Ids(posts) == {posts[k].id : k \in 1..Len(posts)}

\* A post of the list with the id, none of the list nearer to the point.
NearestOf(posts, post_id, latitude, longitude) ==
    \E k \in 1..Len(posts) :
        /\ posts[k].id = post_id
        /\ \A j \in 1..Len(posts) :
              distance(latitude, longitude, posts[k].lat, posts[k].lng)
                 <= distance(latitude, longitude, posts[j].lat, posts[j].lng)

\* What C25 says of one step of the wizard; "strict" is the claim as it
\* stands (the user step lets the flow go on with a non-empty list of
\* posts only), the other the amended one (with any answer that is not
\* empty; the form of the list needs the list).
WizardStep(strict) ==
    /\ (flow'.step = "station" /\ flow.step # "station") =>
          /\ flow.step = "user"
          /\ flow'.outcome.t = "json"
          /\ flow'.posts = flow'.outcome.body
          /\ IF strict THEN NonEmptyPostList(flow'.posts) ELSE ~Falsy(flow'.posts)
    /\ flow'.step = "station_list" =>
          /\ flow.step = "station"
          /\ flow'.posts = flow.posts
          /\ NonEmptyPostList(flow.posts)
    /\ flow'.step = "coordinates" => flow.step = "station"
    /\ flow'.result.type = "create_entry" =>
          /\ flow.step \in {"station_list", "coordinates"}
          /\ flow.step = "station_list" =>
                /\ flow'.result.data[CONF_POST_ID] = flow'.user_input.post_id
                /\ flow'.result.data[CONF_POST_ID] \in Ids(flow.posts.v)
          /\ flow.step = "coordinates" =>
                /\ flow'.outcome.t = "json"
                /\ NonEmptyPostList(flow'.outcome.body)
                /\ NearestOf(flow'.outcome.body.v, flow'.result.data[CONF_POST_ID],
                             flow'.user_input.latitude, flow'.user_input.longitude)
    /\ (flow.step = "station_list" /\ flow'.user_input.post_id \notin Ids(flow.posts.v)) =>
          /\ flow'.result = Abort("station_not_found")
          /\ flow'.configured = flow.configured
    /\ (flow.step = "coordinates" /\ flow'.outcome = Answer(JsonArray(<< >>))) =>
          /\ flow'.result = Abort("no_stations_found")
          /\ flow'.configured = flow.configured

KeyOf(sensor_type) ==
    SENSOR_NAME_MAPPING[CHOOSE k \in 1..Len(SENSOR_NAME_MAPPING) :
                            SENSOR_NAME_MAPPING[k].type = sensor_type].key

\* C22: the order of the table is free of collisions for the labels the
\* upstream is expected to send: each of the twelve default labels of the
\* sensor platform classifies to the sensor type it is paired with, and a
\* label in which "ТЧ10" is found classifies as PM10 and never as PM1,
\* although the shorter key "ТЧ1" is found in it as well.
C22_DefaultLabelsClassify ==
    probe.fn = "get_sensor_type_from_name" =>
        /\ Len(default_sensors) = 12
        /\ \A k \in 1..Len(default_sensors) :
              probe.name = default_sensors[k][2]
                 => probe.result = Str(default_sensors[k][1])
        /\ Contains(KeyOf(SENSOR_TYPE_PM10), clean_html(probe.name))
              => /\ Contains(KeyOf(SENSOR_TYPE_PM1), clean_html(probe.name))
                 /\ probe.result = Str(SENSOR_TYPE_PM10)

\* The default label of PM10, in which the key of PM1 is found too, was
\* classified as PM10.
C22_Witness ==
    /\ probe.fn = "get_sensor_type_from_name"
    /\ probe.name = default_sensors[2][2]
    /\ default_sensors[2][1] = SENSOR_TYPE_PM10
    /\ Contains(KeyOf(SENSOR_TYPE_PM1), clean_html(probe.name))
    /\ probe.result = Str(SENSOR_TYPE_PM10)

\* The snapshot without the parameters whose name is of no channel.
Classified(snapshot) ==
    IF snapshot = None THEN None
    ELSE [snapshot EXCEPT !.params.v =
             SelectSeq(@, LAMBDA p : get_sensor_type_from_name(p.name) # None)]

\* C23: the lookup of a channel classifies the name of every parameter at
\* each read and returns the first parameter, in the order of the params of
\* the snapshot, whose classification is the channel (None when there is
\* none): a parameter of no channel is never returned and changes the
\* result for no channel, and of several parameters of one channel the
\* earliest is the one returned.
C23_EarliestOfChannel ==
    probe.fn = "_get_param_data" =>
        /\ IF PlacesOf(probe.data, probe.sensor_type) = {}
           THEN probe.result = None
           ELSE probe.result = ParamOf(probe.data, probe.sensor_type)
        /\ probe.result # None => get_sensor_type_from_name(probe.result.name) # None
        /\ probe.result = _get_param_data(Classified(probe.data), probe.sensor_type)

\* Two parameters of the snapshot with different readings are of the
\* channel looked up, and the earlier one was returned.
C23_Witness ==
    /\ probe.fn = "_get_param_data"
    /\ \E k, h \in PlacesOf(probe.data, probe.sensor_type) :
          /\ k < h
          /\ probe.data.params.v[k] # probe.data.params.v[h]
          /\ probe.result = probe.data.params.v[k]

\* C24: the entities the sensor platform creates for one station have
\* unique ids that differ from each other, whatever the initial snapshot:
\* the AQI entity and at most one entity for each channel, also when more
\* than one parameter of the snapshot is of the same channel; without an
\* initial snapshot they are the AQI entity and one entity for each of the
\* twelve channels.
C24_DistinctUniqueIds ==
    probe.fn = "sensor.async_setup_entry" =>
        /\ \A k, h \in 1..Len(probe.unique_ids) :
              k # h => probe.unique_ids[k] # probe.unique_ids[h]
        /\ probe.entities[1] = SENSOR_TYPE_AQI
        /\ \A sensor_type \in SensorTypes :
              Cardinality({k \in 1..Len(probe.entities) :
                              probe.entities[k] = sensor_type}) <= 1
        /\ probe.data = None =>
              /\ Len(probe.entities) = 13
              /\ {probe.entities[k] : k \in 2..13} = SensorTypes
              /\ Cardinality(SensorTypes) = 12

\* ----------------------------------------------------------- two stations
\* Two config entries at once, each with a station of its own: one of a
\* fixed post, one of coordinates; each is set up, refreshed and unloaded
\* as the host decides.
PairInit ==
    InitStation({[e \in Entries |-> IF e = "e1" THEN FixedConfig(1)
                                                 ELSE CoordConfig(3, 0, 0)]})

\* While the two stations run the upstream lists post 3 or no post.
PairListBodies == {JsonArray(<< >>), JsonArray(<<PostSummary(3)>>)}

\* The list request is answered with a decoded body.
PairListAnswers(e) ==
    /\ pc[e] = "list"
    /\ \E body \in PairListBodies :
          Settles(e, AfterList(config[e], Answer(body)), Posts(config[e], body))

PairNext ==
    \E e \in Entries :
        \/ SetupEntry(e)
        \/ ForwardEntrySetups(e)
        \/ HandleRefreshInterval(e)
        \/ PairListAnswers(e)
        \/ DetailAnswers(e)
        \/ RequestFails(e)
        \/ RequestTimesOut(e)
        \/ UnloadEntry(e)

PairSpec == PairInit /\ [][PairNext]_vars

\* Where a station is: in its setup, in a cycle, waiting for its interval.
\* Every step of the setup, of a cycle or of the unload of a station moves
\* it.
Position(e) == <<lifecycle[e], pc[e], running[e], timer[e]>>

\* The snapshot of a station and the state of its scheduler, its requests
\* included.
Station(e) ==
    <<data[e], state[e], running[e], pc[e], caller[e], requests[e], fetched[e],
      reason[e], timer[e], listeners[e], startup[e], lifecycle[e], config[e]>>

\* C21: two stations configured at once share no mutable state: every step
\* is the step of one station A (of its setup, of a refresh cycle, of its
\* unload), and the snapshot of every other station B and the state of B's
\* scheduler (its state, its cycle in progress, its requests, its reason,
\* its interval callback, its listeners) are after the step what they were
\* before it.
C21_StationsShareNoState ==
    [][\E a \in Entries :
          /\ Position(a)' # Position(a)
          /\ \A b \in Entries \ {a} : Station(b)' = Station(b)]_vars

\* Station e1 was set up, has published and was unloaded, while station e2
\* is loaded, shows a snapshot of its own post and has a cycle in progress.
C21_Witness ==
    /\ lifecycle["e1"] = "NotLoaded"
    /\ data["e1"] # None /\ data["e1"].id = 1
    /\ lifecycle["e2"] = "Loaded" /\ state["e2"] = "Fetching" /\ pc["e2"] = "list"
    /\ data["e2"] # None /\ data["e2"].id = 3

\* async_setup_entry has got to its registration, and no unload has popped
\* it since.
SetUp(e) == lifecycle[e] \in {"Forwarding", "Loaded", "FailedUnload"}

\* C26: the registry of the stations stays consistent over every sequence
\* of setups and unloads: after async_setup_entry for an entry its
\* coordinator is registered under the id of that entry; async_unload_entry
\* removes the coordinator of exactly that entry, and only when the unload
\* of the platforms succeeded: a failed unload leaves the registry as it
\* was; the registration of another entry is changed by neither.
C26_RegistryConsistent ==
    /\ [](\A e \in Entries : (e \in registry) <=> SetUp(e))
    /\ [][\A e \in Entries :
             /\ (lifecycle[e] = "SettingUp" /\ lifecycle'[e] # "SettingUp")
                   => registry' = registry \cup {e}
             /\ (lifecycle[e] = "Loaded" /\ lifecycle'[e] = "NotLoaded")
                   => registry' = registry \ {e}
             /\ (lifecycle[e] = "Loaded" /\ lifecycle'[e] = "FailedUnload")
                   => registry' = registry
             /\ ((e \in registry') # (e \in registry))
                   => /\ lifecycle'[e] # lifecycle[e]
                      /\ \A b \in Entries \ {e} : lifecycle'[b] = lifecycle[b]]_vars

\* Entry e1 was set up and unloaded, and its coordinator is gone; the unload
\* of entry e2 failed, and its coordinator is registered still.
C26_Witness ==
    /\ lifecycle["e1"] = "NotLoaded" /\ startup["e1"] # "none"
    /\ lifecycle["e2"] = "FailedUnload"
    /\ registry = {"e2"}

====
